---- MODULE Spec2Model ----
(***************************************************************************)
(* Model of backend/app.py of AI-Presentation-Builder: the text helpers    *)
(* (process_titles, process_bullet_points, generate_slide_titles,          *)
(* generate_slide_content), the upstream clients (generate_image,          *)
(* generate_chart), the deck assembler (create_presentation) and the       *)
(* request handler (generate) of POST /generate.                           *)
(*                                                                         *)
(* A Python string is a sequence of atoms.  An atom is one character       *)
(* ("a", " ", "\n", "-", "1", "*", "[") or one literal fragment of a       *)
(* format string ("Overview", "Slide", ...), which contains no character   *)
(* the helpers look at.  None is Python's None where a string or an        *)
(* uploaded file is expected: a sequence that is no string.                *)
(***************************************************************************)
EXTENDS Integers, Sequences, FiniteSets, TLC

VARIABLES
    call,     \* the helper call under test: [fn, arg, up, step, out]
    pc,       \* pc[r]: where request r is in generate / create_presentation
    form,     \* form[r]: the multipart form of request r (request.form / request.files)
    content,  \* content[r]: local `content` of create_presentation
    titles,   \* titles[r]: local `slide_titles`
    prs,      \* prs[r]: the Presentation being assembled: its slides, in order
    idx,      \* idx[r]: loop variable i of the content-slide loop
    exc,      \* exc[r]: the exception in flight (its message), or None
    files,    \* files[p]: the deck the file at path p holds, or NoFile
    resp,     \* resp[r]: the HTTP response of request r (status 0: none yet)
    log,      \* log[r]: history: the calls create_presentation made, in order
    saved     \* history: the requests whose prs.save returned, in order

vars == <<call, pc, form, content, titles, prs, idx, exc, files, resp, log, saved>>

None == <<"None">>

(***************************************************************************)
(* Bounds of the model.                                                    *)
(***************************************************************************)
MaxRespLen == 7    \* longest titles response tried on generate_slide_titles
MaxTextLen == 4    \* longest text tried on process_bullet_points
NumReq == 2        \* requests in flight at once

(***************************************************************************)
(* Python string primitives.                                               *)
(***************************************************************************)
Whitespace == {" ", "\n"}
Digits == {"0", "1", "2", "3", "4", "5", "6", "7", "8", "9"}
DecDigit == <<"0", "1", "2", "3", "4", "5", "6", "7", "8", "9">>

\* str(n) for 0 <= n <= 9
IntStr(n) == <<DecDigit[n + 1]>>

RECURSIVE LStripSet(_, _)
\* s with its longest prefix of atoms of `set` removed: s.lstrip(), re.sub('^[set]+', '', s)
LStripSet(s, set) ==
    IF s # <<>> /\ Head(s) \in set THEN LStripSet(Tail(s), set) ELSE s

RECURSIVE RStripSet(_, _)
RStripSet(s, set) ==
    IF s # <<>> /\ s[Len(s)] \in set THEN RStripSet(SubSeq(s, 1, Len(s) - 1), set) ELSE s

\* s.strip()
Strip(s) == RStripSet(LStripSet(s, Whitespace), Whitespace)

\* re.sub('[set]', '', s)
RemoveSet(s, set) == SelectSeq(s, LAMBDA c : c \notin set)

RECURSIVE Split(_, _)
\* s.split(sep) for a one-character sep: always at least one piece
Split(s, sep) ==
    IF \E k \in 1..Len(s) : s[k] = sep
    THEN LET k == CHOOSE j \in 1..Len(s) : s[j] = sep /\ \A m \in 1..(j - 1) : s[m] # sep
         IN  <<SubSeq(s, 1, k - 1)>> \o Split(SubSeq(s, k + 1, Len(s)), sep)
    ELSE <<s>>

RECURSIVE Join(_, _)
\* sep.join(pieces)
Join(pieces, sep) ==
    IF pieces = <<>> THEN <<>>
    ELSE IF Len(pieces) = 1 THEN pieces[1]
    ELSE pieces[1] \o <<sep>> \o Join(Tail(pieces), sep)

\* s[:n]
Prefix(s, n) == SubSeq(s, 1, IF Len(s) < n THEN Len(s) ELSE n)

RECURSIVE MapStrip(_)
MapStrip(lines) ==
    IF lines = <<>> THEN <<>> ELSE <<Strip(Head(lines))>> \o MapStrip(Tail(lines))

(***************************************************************************)
(* process_titles                                                          *)
(***************************************************************************)
\* process_titles keeping the blank lines (the filter `if line.strip()` dropped)
process_titles_keep_blank(text) == Prefix(MapStrip(Split(Strip(text), "\n")), 3)

process_titles(text) ==
    LET lines == Split(Strip(text), "\n")
        kept == SelectSeq(MapStrip(lines), LAMBDA l : l # <<>>)
    IN  Prefix(kept, 3)

(***************************************************************************)
(* process_bullet_points                                                   *)
(***************************************************************************)
\* the loop body without the final line.strip()
CleanLine_no_final_strip(raw) ==
    LET line == Strip(raw)
    IN  IF line = <<>> THEN <<>>
        ELSE LET noMarks == RemoveSet(line, {"*", "[", "]"})
                 noLead == LStripSet(noMarks, Digits \cup {".", "-"} \cup Whitespace)
             IN  <<<<"-", " ">> \o noLead>>

\* one pass of the loop body on a line; <<>> when the line is skipped
CleanLine(raw) ==
    LET line == Strip(raw)
    IN  IF line = <<>> THEN <<>>
        ELSE LET noMarks == RemoveSet(line, {"*", "[", "]"})
                 noLead == LStripSet(noMarks, Digits \cup {".", "-"} \cup Whitespace)
             IN  <<<<"-", " ">> \o Strip(noLead)>>

RECURSIVE CleanLines(_)
CleanLines(lines) ==
    IF lines = <<>> THEN <<>> ELSE CleanLine(Head(lines)) \o CleanLines(Tail(lines))

process_bullet_points(text) == Join(CleanLines(Split(text, "\n")), "\n")

(***************************************************************************)
(* generate_slide_titles.  `up` is the outcome of model.generate_content   *)
(* and response.text: [ok |-> TRUE, text |-> s], or [ok |-> FALSE, ...]    *)
(* when either raises.                                                     *)
(***************************************************************************)
RECURSIVE PadTitles(_, _)
\* while len(titles) < 3: titles.append(f"{content} Overview {len(titles) + 1}")
PadTitles(ts, c) ==
    IF Len(ts) < 3
    THEN PadTitles(Append(ts, c \o <<" ", "Overview", " ">> \o IntStr(Len(ts) + 1)), c)
    ELSE ts

generate_slide_titles(c, up) ==
    IF up.ok
    THEN Prefix(PadTitles(process_titles(Strip(up.text)), c), 3)
    ELSE [i \in 1..3 |-> c \o <<" ", "Slide", " ">> \o IntStr(i)]

(***************************************************************************)
(* generate_slide_content                                                  *)
(***************************************************************************)
generate_slide_content(has_image, summarize, up) ==
    IF up.ok
    THEN LET text == Strip(up.text)
         IN  IF ~has_image /\ ~summarize THEN process_bullet_points(text) ELSE text
    ELSE <<"Content generation failed: ">> \o up.text

(***************************************************************************)
(* The text helpers on their own: Init draws the arguments, the            *)
(* actions apply the helper.                                               *)
(***************************************************************************)
SeqsUpTo(alphabet, n) == UNION {[1..k -> alphabet] : k \in 0..n}

TitleAlphabet == {"a", " ", "\n"}
BulletAlphabet == {"a", " ", "-", "1", "*", "[", "\n"}
Contents == {<<>>, <<"T">>, <<"T", " ", "u">>}

NoCall == [fn |-> "none", arg |-> <<>>, up |-> [ok |-> FALSE, text |-> <<>>], step |-> 0, out |-> <<>>]

\* titles = generate_slide_titles(content)
CallTitles ==
    /\ call.fn = "titles" /\ call.step = 0
    /\ call' = [call EXCEPT !.step = 1, !.out = generate_slide_titles(call.arg, call.up)]
    /\ UNCHANGED <<pc, form, content, titles, prs, idx, exc, files, resp, log, saved>>

\* once = process_bullet_points(text)
CallBulletsOnce ==
    /\ call.fn = "bullets" /\ call.step = 0
    /\ call' = [call EXCEPT !.step = 1, !.out = <<process_bullet_points(call.arg)>>]
    /\ UNCHANGED <<pc, form, content, titles, prs, idx, exc, files, resp, log, saved>>

\* twice = process_bullet_points(once)
CallBulletsTwice ==
    /\ call.fn = "bullets" /\ call.step = 1
    /\ call' = [call EXCEPT !.step = 2,
                            !.out = Append(call.out, process_bullet_points(call.out[1]))]
    /\ UNCHANGED <<pc, form, content, titles, prs, idx, exc, files, resp, log, saved>>

(***************************************************************************)
(* The request handler and the deck assembler.                             *)
(***************************************************************************)
Req == 1..NumReq

\* Python truthiness of an optional string: None and "" are falsy
Truthy(v) == v # None /\ v # <<>>

\* truthiness of request.files.get(key): an uploaded file is truthy whatever it holds
Present(file) == file # None

\* request.form.get(key, default)
FormGet(v, default) == IF v = None THEN default ELSE v

\* topic or 'presentation'
TopicOrDefault(topic) == IF Truthy(topic) THEN topic ELSE <<"presentation">>

\* os.path.join("generated_ppt", f"{topic or 'presentation'}_presentation.pptx")
OutputPath(topic) == <<"generated_ppt/">> \o TopicOrDefault(topic) \o <<"_presentation.pptx">>

\* f"{topic or 'presentation'}.pptx"
DownloadName(topic) == TopicOrDefault(topic) \o <<".pptx">>

\* the validation written as `topic is None and not text_file`
MissingInput_none_only(f) == f.topic = None /\ ~Present(f.textFile)

\* if not topic and not text_file
MissingInput(f) == ~Truthy(f.topic) /\ ~Present(f.textFile)

\* include_images = request.form.get('includeImages', 'true') == 'true'
IncludeImages(f) == FormGet(f.includeImages, <<"true">>) = <<"true">>

\* summarize = request.form.get('summarize', 'false') == 'true'
Summarize(f) == FormGet(f.summarize, <<"false">>) = <<"true">>

\* export_format = request.form.get('exportFormat', 'pptx')
ExportFormat(f) == FormGet(f.exportFormat, <<"pptx">>)

\* what a function call gives its caller: a value, or an exception
Ret(v) == [raised |-> FALSE, value |-> v]
Raises(msg) == [raised |-> TRUE, value |-> msg]

\* text_file.read().decode('utf-8'): the uploaded text, or UnicodeDecodeError when
\* the file holds a byte sequence that is no UTF-8 ("\\xff")
Decode(file) ==
    IF \E k \in 1..Len(file) : file[k] = "\\xff"
    THEN Raises(<<"UnicodeDecodeError">>)
    ELSE Ret(file)

\* the loop enumerating slide_titles instead of slide_titles[1:]
ContentTitles_all(ts) == ts

\* slide_titles[1:], the titles the content-slide loop enumerates from i = 1
ContentTitles(ts) == Tail(ts)

\* has_image without the test on the index
HasImage_every_slide(i, include_images) == include_images

\* has_image = (i == 1 and include_images)
HasImage(i, include_images) == i = 1 /\ include_images

\* has_chart = (csv_file and i == 2)
HasChart(csv_file, i) == Present(csv_file) /\ i = 2

\* slide_layout = prs.slide_layouts[1] if (i == 1 and include_images) else prs.slide_layouts[5]
SlideLayout(i, include_images) == IF i = 1 /\ include_images THEN 1 ELSE 5

\* content_width = Inches(5.0) if (has_image or has_chart) else Inches(9.0)
ContentWidth(has_image, has_chart) == IF has_image \/ has_chart THEN "5.0in" ELSE "9.0in"

\* The shape that takes the body text.  On layout 1 with has_image it is the layout's
\* content placeholder, whose geometry the code never sets ("layout": inherited from
\* the slide layout); otherwise a text box of width content_width.
BodyWidth(layout, has_image, content_width) ==
    IF layout = 1 /\ has_image THEN "layout" ELSE content_width

\* Outcomes of the image service seen by generate_image.
ImageFailures == {"no_key", "http_error", "insufficient_balance", "undecodable"}
ImageOutcomes == ImageFailures \cup {"image", "not_image"}

\* generate_image with raise_for_status() outside the try block
generate_image_no_except(up) ==
    IF up = "http_error" THEN [raised |-> TRUE, value |-> <<"HTTPError">>]
    ELSE [raised |-> FALSE, value |-> IF up \in {"image", "not_image"} THEN up ELSE "None"]

\* generate_image: NoStream (None), or the BytesIO of the decoded bytes ("image": a
\* picture, "not_image": bytes that decode from base64 but are no picture)
NoStream == "None"
generate_image(up) ==
    IF up = "no_key" THEN Ret(NoStream)
    ELSE IF up = "http_error" THEN Ret(NoStream)
    ELSE IF up = "insufficient_balance" THEN Ret(NoStream)
    ELSE IF up = "undecodable" THEN Ret(NoStream)
    ELSE Ret(up)

\* slide.shapes.add_picture(image_stream, ...): PIL rejects bytes that are no picture
AddPicture(slide, stream) ==
    IF stream = "image" THEN Ret([slide EXCEPT !.picture = TRUE])
    ELSE Raises(<<"UnidentifiedImageError">>)

\* generate_chart: csv_file holds a two-column table, or something pd.read_csv or
\* iloc[:, 1] raises on (caught and logged)
generate_chart(slide, csv_file) ==
    IF csv_file = <<"table">> THEN Ret([slide EXCEPT !.chart = TRUE]) ELSE Ret(slide)

\* No file at a path; a saved deck has at least its title slide.
NoFile == <<>>

\* prs.save whose OSError is swallowed
PrsSave_swallow(fs, path, deck, up) ==
    [raised |-> FALSE, value |-> IF up = "ok" THEN [fs EXCEPT ![path] = deck] ELSE fs]

\* prs.save that leaves an existing file alone
PrsSave_keep_existing(fs, path, deck, up) ==
    IF up # "ok" THEN [raised |-> TRUE, value |-> <<"OSError">>]
    ELSE [raised |-> FALSE,
          value |-> IF fs[path] = <<>> THEN [fs EXCEPT ![path] = deck] ELSE fs]

\* prs.save(output_filepath): the file now holds the deck, or OSError
PrsSave(fs, path, deck, up) ==
    IF up = "ok" THEN Ret([fs EXCEPT ![path] = deck]) ELSE Raises(<<"OSError">>)

TitleSlideOf(title) ==
    [layout |-> 0, title |-> title, body |-> <<"Powered by AI">>,
     content_width |-> "none", body_width |-> "layout",
     has_image |-> FALSE, has_chart |-> FALSE, picture |-> FALSE, chart |-> FALSE]

ContentSlideOf(i, title, include_images, csv_file) ==
    [layout |-> SlideLayout(i, include_images), title |-> title, body |-> <<>>,
     content_width |-> ContentWidth(HasImage(i, include_images), HasChart(csv_file, i)),
     body_width |-> "none",
     has_image |-> HasImage(i, include_images), has_chart |-> HasChart(csv_file, i),
     picture |-> FALSE, chart |-> FALSE]

\* the slide being built is the last one of prs
SetLast(slides, slide) == [slides EXCEPT ![Len(slides)] = slide]
Last(slides) == slides[Len(slides)]

Entry(op, i, up) == [op |-> op, i |-> i, up |-> up]

\* an exception leaves the try block of create_presentation
Propagate(r, msg) ==
    /\ exc' = [exc EXCEPT ![r] = msg]
    /\ pc' = [pc EXCEPT ![r] = "raised"]

\* where the loop body goes after the body text is placed / after the image step
AfterImage(slide) == IF slide.has_chart THEN "chart" ELSE "next"
AfterBody(slide) == IF slide.has_image THEN "image" ELSE AfterImage(slide)

\* generate(): read the form, validate, enter create_presentation
Receive(r, f) ==
    /\ pc[r] = "idle"
    /\ form' = [form EXCEPT ![r] = f]
    /\ IF MissingInput(f)
       THEN /\ resp' = [resp EXCEPT ![r] =
                   [status |-> 400, json |-> <<"Topic or text file required">>,
                    file |-> NoFile, name |-> None]]
            /\ pc' = [pc EXCEPT ![r] = "done"]
       ELSE /\ pc' = [pc EXCEPT ![r] = "resolve"]
            /\ UNCHANGED resp
    /\ UNCHANGED <<call, content, titles, prs, idx, exc, files, log, saved>>

\* create_presentation: prs = Presentation(); content = topic, or the decoded text file
ResolveContent(r) ==
    /\ pc[r] = "resolve"
    /\ prs' = [prs EXCEPT ![r] = <<>>]
    /\ IF Present(form[r].textFile)
       THEN LET res == Decode(form[r].textFile)
            IN  IF res.raised
                THEN Propagate(r, res.value) /\ UNCHANGED content
                ELSE /\ content' = [content EXCEPT ![r] = res.value]
                     /\ pc' = [pc EXCEPT ![r] = "titles"]
                     /\ UNCHANGED exc
       ELSE /\ content' = [content EXCEPT ![r] = form[r].topic]
            /\ pc' = [pc EXCEPT ![r] = "titles"]
            /\ UNCHANGED exc
    /\ UNCHANGED <<call, form, titles, idx, files, resp, log, saved>>

\* slide_titles = generate_slide_titles(content, language)
GenerateTitles(r, up) ==
    /\ pc[r] = "titles"
    /\ titles' = [titles EXCEPT ![r] = generate_slide_titles(content[r], up)]
    /\ log' = [log EXCEPT ![r] = Append(@, Entry("titles", 0, IF up.ok THEN "ok" ELSE "failed"))]
    /\ pc' = [pc EXCEPT ![r] = "title_slide"]
    /\ UNCHANGED <<call, form, content, prs, idx, exc, files, resp, saved>>

\* the title slide, from slide_titles[0]
TitleSlide(r) ==
    /\ pc[r] = "title_slide"
    /\ prs' = [prs EXCEPT ![r] = Append(@, TitleSlideOf(titles[r][1]))]
    /\ log' = [log EXCEPT ![r] = Append(@, Entry("title_slide", 0, "ok"))]
    /\ idx' = [idx EXCEPT ![r] = 1]
    /\ pc' = [pc EXCEPT ![r] = IF ContentTitles(titles[r]) = <<>> THEN "save" ELSE "add_slide"]
    /\ UNCHANGED <<call, form, content, titles, exc, files, resp, saved>>

\* loop body, first half: add the slide, set its title, compute the flags and the width
AddSlide(r) ==
    /\ pc[r] = "add_slide"
    /\ prs' = [prs EXCEPT ![r] =
          Append(@, ContentSlideOf(idx[r], ContentTitles(titles[r])[idx[r]],
                                   IncludeImages(form[r]), form[r].csvFile))]
    /\ log' = [log EXCEPT ![r] = Append(@, Entry("add_slide", idx[r], "ok"))]
    /\ pc' = [pc EXCEPT ![r] = "body"]
    /\ UNCHANGED <<call, form, content, titles, idx, exc, files, resp, saved>>

\* content_text = generate_slide_content(...); place it in the placeholder or a text box
Body(r, up) ==
    /\ pc[r] = "body"
    /\ LET slide == Last(prs[r])
           text == generate_slide_content(slide.has_image, Summarize(form[r]), up)
           placed == [slide EXCEPT !.body = text,
                        !.body_width = BodyWidth(slide.layout, slide.has_image, slide.content_width)]
       IN  /\ prs' = [prs EXCEPT ![r] = SetLast(@, placed)]
           /\ pc' = [pc EXCEPT ![r] = AfterBody(slide)]
    /\ log' = [log EXCEPT ![r] = Append(@, Entry("body", idx[r], IF up.ok THEN "ok" ELSE "failed"))]
    /\ UNCHANGED <<call, form, content, titles, idx, exc, files, resp, saved>>

\* if has_image: image_stream = generate_image(...); add the picture when there is one
Image(r, up) ==
    /\ pc[r] = "image"
    /\ log' = [log EXCEPT ![r] = Append(@, Entry("image", idx[r], up))]
    /\ LET slide == Last(prs[r])
           got == generate_image(up)
       IN  IF got.raised
           THEN Propagate(r, got.value) /\ UNCHANGED prs
           ELSE IF got.value = NoStream
           THEN /\ pc' = [pc EXCEPT ![r] = AfterImage(slide)]
                /\ UNCHANGED <<prs, exc>>
           ELSE LET pic == AddPicture(slide, got.value)
                IN  IF pic.raised
                    THEN Propagate(r, pic.value) /\ UNCHANGED prs
                    ELSE /\ prs' = [prs EXCEPT ![r] = SetLast(@, pic.value)]
                         /\ pc' = [pc EXCEPT ![r] = AfterImage(slide)]
                         /\ UNCHANGED exc
    /\ UNCHANGED <<call, form, content, titles, idx, files, resp, saved>>

\* if has_chart: csv_file.seek(0); generate_chart(slide, csv_file, chart_type)
Chart(r) ==
    /\ pc[r] = "chart"
    /\ LET built == generate_chart(Last(prs[r]), form[r].csvFile)
       IN  IF built.raised
           THEN Propagate(r, built.value) /\ UNCHANGED <<prs, log>>
           ELSE /\ prs' = [prs EXCEPT ![r] = SetLast(@, built.value)]
                /\ log' = [log EXCEPT ![r] =
                      Append(@, Entry("chart", idx[r], IF built.value.chart THEN "ok" ELSE "failed"))]
                /\ pc' = [pc EXCEPT ![r] = "next"]
                /\ UNCHANGED exc
    /\ UNCHANGED <<call, form, content, titles, idx, files, resp, saved>>

\* the for statement takes the next title, or the loop ends
NextSlide(r) ==
    /\ pc[r] = "next"
    /\ idx' = [idx EXCEPT ![r] = @ + 1]
    /\ pc' = [pc EXCEPT ![r] =
          IF idx[r] + 1 <= Len(ContentTitles(titles[r])) THEN "add_slide" ELSE "save"]
    /\ UNCHANGED <<call, form, content, titles, prs, exc, files, resp, log, saved>>

\* os.makedirs; prs.save(output_filepath); return output_filepath
Save(r, up) ==
    /\ pc[r] = "save"
    /\ LET res == PrsSave(files, OutputPath(form[r].topic), prs[r], up)
       IN  IF res.raised
           THEN Propagate(r, res.value) /\ UNCHANGED <<files, log, saved>>
           ELSE /\ files' = res.value
                /\ log' = [log EXCEPT ![r] = Append(@, Entry("save", 0, "ok"))]
                /\ saved' = Append(saved, r)
                /\ pc' = [pc EXCEPT ![r] = "return"]
                /\ UNCHANGED exc
    /\ UNCHANGED <<call, form, content, titles, prs, idx, resp>>

\* back in generate(): the pdf check, then send_file(pptx_path, ...)
Respond(r) ==
    /\ pc[r] = "return"
    /\ resp' = [resp EXCEPT ![r] =
          IF ExportFormat(form[r]) = <<"pdf">>
          THEN [status |-> 501, json |-> <<"PDF export not implemented">>,
                file |-> NoFile, name |-> None]
          ELSE [status |-> 200, json |-> None,
                file |-> files[OutputPath(form[r].topic)],
                name |-> DownloadName(form[r].topic)]]
    /\ pc' = [pc EXCEPT ![r] = "done"]
    /\ UNCHANGED <<call, form, content, titles, prs, idx, exc, files, log, saved>>

\* except in create_presentation (log, raise e), then except in generate(): 500
HandleError(r) ==
    /\ pc[r] = "raised"
    /\ resp' = [resp EXCEPT ![r] =
          [status |-> 500, json |-> exc[r], file |-> NoFile, name |-> None]]
    /\ pc' = [pc EXCEPT ![r] = "done"]
    /\ UNCHANGED <<call, form, content, titles, prs, idx, exc, files, log, saved>>

(***************************************************************************)
(* Inputs: the forms a client can post and the outcomes of the upstream    *)
(* services.  theme, language and chartType only select styling, prompt    *)
(* wording and the chart kind; no step of the control flow reads them.     *)
(***************************************************************************)
Forms ==
    [topic : {None, <<>>, <<"A">>},
     textFile : {None, <<"T">>, <<"\\xff">>},
     csvFile : {None, <<"table">>, <<"garbage">>},
     includeImages : {None, <<"true">>, <<"false">>},
     summarize : {None, <<"true">>},
     exportFormat : {None, <<"pptx">>, <<"pdf">>}]

Form(topic, textFile, csvFile, includeImages) ==
    [topic |-> topic, textFile |-> textFile, csvFile |-> csvFile,
     includeImages |-> includeImages, summarize |-> None, exportFormat |-> None]

\* the forms of the concurrent runs: two topics, the default name, one bad upload
ConcForms ==
    {Form(<<"A">>, None, None, None),
     Form(<<"A">>, None, <<"table">>, <<"false">>),
     Form(None, <<"T">>, <<"table">>, <<"false">>),
     Form(<<"presentation">>, None, None, <<"false">>),
     Form(None, <<"\\xff">>, None, None)}

\* outcomes of the titles call: it raises, or response.text is one of these
TitleUps ==
    {[ok |-> FALSE, text |-> <<>>]} \cup
    {[ok |-> TRUE, text |-> t] :
        t \in {<<>>, <<"a">>, <<"a", "\n", "b", "\n", "c", "\n", "d">>}}

\* outcomes of a body call: it raises with a message, or response.text
BodyUps ==
    {[ok |-> FALSE, text |-> <<"timeout">>], [ok |-> TRUE, text |-> <<"*", " ", "a">>]}

SaveUps == {"ok", "os_error"}

\* every upstream call succeeds
OkTitleUp == [ok |-> TRUE, text |-> <<"a">>]
OkBodyUp == [ok |-> TRUE, text |-> <<"*", " ", "a">>]

Paths == {OutputPath(f.topic) : f \in Forms \cup ConcForms}

NoForm == Form(None, None, None, None)
NoResp == [status |-> 0, json |-> None, file |-> NoFile, name |-> None]

\* the server is up, no request has arrived, generated_ppt/ is empty
Idle ==
    /\ pc = [r \in Req |-> "idle"]
    /\ form = [r \in Req |-> NoForm]
    /\ content = [r \in Req |-> <<>>]
    /\ titles = [r \in Req |-> <<>>]
    /\ prs = [r \in Req |-> <<>>]
    /\ idx = [r \in Req |-> 0]
    /\ exc = [r \in Req |-> None]
    /\ files = [p \in Paths |-> NoFile]
    /\ resp = [r \in Req |-> NoResp]
    /\ log = [r \in Req |-> <<>>]
    /\ saved = <<>>

Init == call = NoCall /\ Idle

\* one request, every form, every upstream outcome
Next ==
    \/ \E f \in Forms : Receive(1, f)
    \/ ResolveContent(1)
    \/ \E up \in TitleUps : GenerateTitles(1, up)
    \/ TitleSlide(1)
    \/ AddSlide(1)
    \/ \E up \in BodyUps : Body(1, up)
    \/ \E up \in ImageOutcomes : Image(1, up)
    \/ Chart(1)
    \/ NextSlide(1)
    \/ \E up \in SaveUps : Save(1, up)
    \/ Respond(1)
    \/ HandleError(1)

Spec == Init /\ [][Next]_vars

\* NumReq requests handled by concurrent workers, the upstream services healthy
NextConc ==
    \E r \in Req :
        \/ \E f \in ConcForms : Receive(r, f)
        \/ ResolveContent(r)
        \/ GenerateTitles(r, OkTitleUp)
        \/ TitleSlide(r)
        \/ AddSlide(r)
        \/ Body(r, OkBodyUp)
        \/ Image(r, "image")
        \/ Chart(r)
        \/ NextSlide(r)
        \/ Save(r, "ok")
        \/ Respond(r)
        \/ HandleError(r)

SpecConc == Init /\ [][NextConc]_vars

\* generate_slide_titles on every content and every upstream outcome
InitTitles ==
    /\ Idle
    /\ \E c \in Contents :
       \E up \in {[ok |-> FALSE, text |-> <<>>]} \cup
                 {[ok |-> TRUE, text |-> t] : t \in SeqsUpTo(TitleAlphabet, MaxRespLen)} :
           call = [fn |-> "titles", arg |-> c, up |-> up, step |-> 0, out |-> <<>>]

NextTitles == CallTitles

SpecTitles == InitTitles /\ [][NextTitles]_vars

\* process_bullet_points, applied once and again, on every text
InitBullets ==
    /\ Idle
    /\ \E t \in SeqsUpTo(BulletAlphabet, MaxTextLen) :
           call = [fn |-> "bullets", arg |-> t, up |-> [ok |-> TRUE, text |-> <<>>],
                   step |-> 0, out |-> <<>>]

NextBullets == CallBulletsOnce \/ CallBulletsTwice

SpecBullets == InitBullets /\ [][NextBullets]_vars

(***************************************************************************)
(* Properties.                                                             *)
(***************************************************************************)
SavedSet == {saved[k] : k \in 1..Len(saved)}

\* the lines of a text, found from the positions of its line breaks
LineStarts(s) == {1} \cup {k + 1 : k \in {j \in 1..Len(s) : s[j] = "\n"}}
LineAt(s, b) ==
    LET ends == {k \in b..Len(s) : s[k] = "\n"}
        e == IF ends = {} THEN Len(s) + 1 ELSE CHOOSE k \in ends : \A m \in ends : k <= m
    IN  SubSeq(s, b, e - 1)
IsBlank(l) == \A k \in 1..Len(l) : l[k] \in {" ", "\n"}
NonBlankStarts(s) == {b \in LineStarts(s) : ~IsBlank(LineAt(s, b))}
\* the j-th non-blank line, without the blanks around it
Trimmed(l) ==
    LET ink == {k \in 1..Len(l) : l[k] \notin {" ", "\n"}}
        lo == CHOOSE k \in ink : \A m \in ink : k <= m
        hi == CHOOSE k \in ink : \A m \in ink : k >= m
    IN  SubSeq(l, lo, hi)
NthNonBlank(s, j) ==
    LET b == CHOOSE x \in NonBlankStarts(s) :
                 Cardinality({y \in NonBlankStarts(s) : y < x}) = j - 1
    IN  Trimmed(LineAt(s, b))
OneTwoThree == <<"1", "2", "3">>

\* C1: generate_slide_titles returns exactly 3 non-empty strings for every content
\* and every upstream outcome: the first min(3, k) stripped non-blank response lines,
\* then "<content> Overview <j>" at each missing position j; "<content> Slide 1..3"
\* when the upstream call failed.
C1_TitlesContract ==
    (call.fn = "titles" /\ call.step = 1) =>
        LET ts == call.out
            c == call.arg
            k == Cardinality(NonBlankStarts(call.up.text))
        IN  /\ DOMAIN ts = 1..3
            /\ \A j \in 1..3 :
                /\ ts[j] # <<>>
                /\ ts[j] = IF ~call.up.ok THEN c \o <<" ", "Slide", " ", OneTwoThree[j]>>
                           ELSE IF j <= k THEN NthNonBlank(call.up.text, j)
                           ELSE c \o <<" ", "Overview", " ", OneTwoThree[j]>>

\* C1 witness: a response with two non-blank lines among blank ones was padded
C1_Witness ==
    /\ call.fn = "titles" /\ call.step = 1 /\ call.up.ok
    /\ call.arg = <<"T">>
    /\ call.up.text = <<"\n", "a", " ", "\n", "\n", " ", "a">>
    /\ call.out = <<<<"a">>, <<"a">>, <<"T", " ", "Overview", " ", "3">>>>

\* C4: process_bullet_points is idempotent: applied to its own output it returns
\* that output unchanged.
C4_Idempotent ==
    (call.fn = "bullets" /\ call.step = 2) => call.out[2] = call.out[1]

\* C4 witness: a numbered, starred line was rewritten by the first pass and kept
\* by the second
C4_Witness ==
    /\ call.fn = "bullets" /\ call.step = 2
    /\ call.arg = <<"1", "*", " ", "a">>
    /\ call.out[1] = <<"-", " ", "a">>

\* what the handler's form parsing makes of a posted form, stated from the interface
WantsImages(f) == f.includeImages \in {None, <<"true">>}
WantsPdf(f) == f.exportFormat = <<"pdf">>
NoInput(f) == f.topic \in {None, <<>>} /\ f.textFile = None
NameOf(f) == IF f.topic \in {None, <<>>} THEN <<"presentation">> ELSE f.topic

Arrived(r) == pc[r] # "idle"
Ops(l) == [k \in 1..Len(l) |-> [op |-> l[k].op, i |-> l[k].i]]
IsPrefix(a, b) == Len(a) <= Len(b) /\ a = SubSeq(b, 1, Len(a))
Step(op, i) == [op |-> op, i |-> i]

\* C2 (as claimed): a request with exportFormat=pdf (that passes validation) never
\* enters deck assembly and is answered 501 "PDF export not implemented".
C2_PdfNeverAssembles ==
    \A r \in Req :
        (Arrived(r) /\ WantsPdf(form[r]) /\ ~NoInput(form[r])) =>
            /\ log[r] = <<>>
            /\ r \notin SavedSet
            /\ pc[r] = "done" =>
                  /\ resp[r].status = 501
                  /\ resp[r].json = <<"PDF export not implemented">>

\* C3: a request with neither topic nor text file is answered 400 "Topic or text
\* file required" whatever its other fields, and nothing is processed for it: no
\* upstream call, no slide, no file.
C3_MissingInput400 ==
    \A r \in Req :
        (Arrived(r) /\ NoInput(form[r])) =>
            /\ pc[r] = "done"
            /\ resp[r].status = 400
            /\ resp[r].json = <<"Topic or text file required">>
            /\ resp[r].file = NoFile
            /\ log[r] = <<>> /\ prs[r] = <<>> /\ titles[r] = <<>>
            /\ r \notin SavedSet
            /\ \A p \in Paths : files[p] = NoFile

\* C3 witness: the 400 was given to a form whose other fields are all set
C3_Witness ==
    /\ pc[1] = "done" /\ resp[1].status = 400
    /\ form[1].topic = <<>> /\ form[1].textFile = None
    /\ form[1].csvFile = <<"table">> /\ form[1].exportFormat = <<"pdf">>
    /\ form[1].includeImages = <<"false">> /\ form[1].summarize = <<"true">>

\* C5: a request ends with a JSON error (400, 501, 500) and no file, or with a 200
\* download of a deck that was saved whole; an exception raised in deck assembly is
\* answered 500 with its message; nothing is answered before the request ends.
C5_ErrorOrDownload ==
    \A r \in Req :
        /\ pc[r] # "done" => resp[r] = NoResp
        /\ pc[r] = "raised" => exc[r] # None
        /\ pc[r] = "done" =>
              /\ resp[r].status \in {400, 501, 500, 200}
              /\ resp[r].status \in {400, 501, 500} =>
                    resp[r].json # None /\ resp[r].file = NoFile
              /\ resp[r].status = 200 =>
                    /\ resp[r].json = None /\ exc[r] = None
                    /\ \E q \in SavedSet :
                          /\ NameOf(form[q]) = NameOf(form[r])
                          /\ resp[r].file = prs[q]
                          /\ Len(prs[q]) = 3
                          /\ \A k \in 2..3 : prs[q][k].body_width # "none"
              /\ exc[r] # None => resp[r].status = 500 /\ resp[r].json = exc[r]

\* C5 witness: add_picture raised on the second slide; the request got a 500 with
\* the message and no file
C5_Witness ==
    /\ pc[1] = "done" /\ resp[1].status = 500
    /\ resp[1].json = <<"UnidentifiedImageError">>
    /\ Len(prs[1]) = 2 /\ resp[1].file = NoFile

\* the exceptions of deck assembly itself
AssemblyErrors == {<<"UnicodeDecodeError">>, <<"UnidentifiedImageError">>, <<"OSError">>}
Attempt(r, op, i) == {k \in 1..Len(log[r]) : log[r][k].op = op /\ log[r][k].i = i}
FailedAttempt(r, op, i, ups) == \E k \in Attempt(r, op, i) : log[r][k].up \in ups

\* C6: no failure of the titles call, a body call, the image call (no credential,
\* HTTP error, insufficient balance, undecodable response) or the chart build raises
\* out of create_presentation; the deck still gets its 3 slides and is saved, the
\* slide whose image call failed has its text and no picture, the slide whose chart
\* build failed has no chart.
C6_DegradationAbsorbed ==
    \A r \in Req :
        /\ pc[r] = "raised" => exc[r] \in AssemblyErrors
        /\ (log[r] # <<>> /\ Last(log[r]).up \in {"failed"} \cup ImageFailures) =>
              pc[r] \in {"title_slide", "image", "chart", "next", "add_slide", "save",
                         "return", "done"} \/ exc[r] = <<"OSError">>
        /\ r \in SavedSet =>
              /\ Len(prs[r]) = 3
              /\ files[OutputPath(form[r].topic)] = prs[r]
              /\ \A i \in 1..2 :
                    /\ prs[r][i + 1].body # <<>>
                    /\ FailedAttempt(r, "image", i, ImageFailures) => ~prs[r][i + 1].picture
                    /\ FailedAttempt(r, "chart", i, {"failed"}) => ~prs[r][i + 1].chart
                    /\ FailedAttempt(r, "body", i, {"failed"}) =>
                          prs[r][i + 1].body = <<"Content generation failed: ", "timeout">>
              /\ FailedAttempt(r, "titles", 0, {"failed"}) =>
                    \A j \in 1..3 : prs[r][j].title = content[r] \o <<" ", "Slide", " ", OneTwoThree[j]>>

\* C6 witness: every upstream call failed and the deck was saved
C6_Witness ==
    /\ 1 \in SavedSet
    /\ FailedAttempt(1, "titles", 0, {"failed"})
    /\ FailedAttempt(1, "body", 1, {"failed"}) /\ FailedAttempt(1, "body", 2, {"failed"})
    /\ FailedAttempt(1, "image", 1, {"http_error"})
    /\ FailedAttempt(1, "chart", 2, {"failed"})

\* the calls of one deck assembly, in order, for a form
SlideSteps(f, i) ==
    <<Step("add_slide", i), Step("body", i)>>
    \o (IF i = 1 /\ WantsImages(f) THEN <<Step("image", i)>> ELSE <<>>)
    \o (IF i = 2 /\ f.csvFile # None THEN <<Step("chart", i)>> ELSE <<>>)
ExpectedSteps(f) ==
    <<Step("titles", 0), Step("title_slide", 0)>>
    \o SlideSteps(f, 1) \o SlideSteps(f, 2) \o <<Step("save", 0)>>

\* C7: deck assembly makes its calls in one fixed order, each once: titles, title
\* slide, then for i = 1, 2: add slide i, body call, image call iff hasImage, chart
\* build iff hasChart; then one save.  A saved deck is the title slide and 2 content
\* slides in that order, and nothing is added after the save.
C7_FixedOrder ==
    \A r \in Req :
        /\ Arrived(r) => IsPrefix(Ops(log[r]), ExpectedSteps(form[r]))
        /\ r \in SavedSet =>
              /\ Ops(log[r]) = ExpectedSteps(form[r])
              /\ Len(prs[r]) = 3
              /\ prs[r][1].layout = 0
              /\ \A j \in 1..3 : prs[r][j].title = titles[r][j]
              /\ \A j \in 2..3 : prs[r][j].layout \in {1, 5}

\* C7 witness: a saved deck with the image call on slide 1 and the chart on slide 2
C7_Witness ==
    /\ 1 \in SavedSet
    /\ Len(log[1]) = 9
    /\ log[1][5] = Entry("image", 1, "image")
    /\ log[1][8] = Entry("chart", 2, "ok")
    /\ log[1][9].op = "save"
    /\ Len(prs[1]) = 3

\* C8: on content slide i, hasImage iff i = 1 and includeImages, hasChart iff a csv
\* file was supplied and i = 2; never both; a picture only on content slide 1, a
\* chart only on content slide 2, and no picture anywhere with includeImages off.
C8_ImageAndChartSlots ==
    \A r \in Req : \A k \in 1..Len(prs[r]) :
        LET s == prs[r][k]
            i == k - 1
        IN  /\ i >= 1 => /\ s.has_image <=> (i = 1 /\ WantsImages(form[r]))
                         /\ s.has_chart <=> (form[r].csvFile # None /\ i = 2)
            /\ ~(s.has_image /\ s.has_chart)
            /\ s.picture => i = 1 /\ s.has_image
            /\ s.chart => i = 2 /\ s.has_chart
            /\ ~WantsImages(form[r]) => ~s.picture

\* C8 witness: a saved deck with the picture on content slide 1 and the chart on 2
C8_Witness ==
    /\ 1 \in SavedSet
    /\ prs[1][2].picture /\ ~prs[1][2].chart
    /\ prs[1][3].chart /\ ~prs[1][3].picture

\* C9 (as claimed): the shape holding a content slide's body text is 5.0 in wide
\* exactly when the slide has hasImage or hasChart, and 9.0 in wide otherwise.
C9_BodyWidthReduced ==
    \A r \in Req : \A k \in 2..Len(prs[r]) :
        LET s == prs[r][k]
        IN  s.body_width # "none" =>
                s.body_width = IF s.has_image \/ s.has_chart THEN "5.0in" ELSE "9.0in"

\* the last request that saved to path p
Savers(p) == {k \in 1..Len(saved) : OutputPath(form[saved[k]].topic) = p}
LastSaver(p) == saved[CHOOSE k \in Savers(p) : \A m \in Savers(p) : m <= k]

====
